---- MODULE Spec2Model ----
(***************************************************************************)
(* Coin ledger and Stripe webhook reconciliation of the bizniz backend.    *)
(*                                                                         *)
(* The external store (PocketBase) is the shared state: the users          *)
(* collection, the transactions collection and the processed_stripe_events *)
(* collection.  Every HTTP request is a process of its own; a request      *)
(* yields between its calls to the store, so the steps of two requests     *)
(* interleave.  A store or Stripe call may fail; MaxFaults bounds how many *)
(* calls fail in one behaviour, at most one per handler run.  Reads of a   *)
(* user record answer (the record, or nothing when it does not exist).     *)
(***************************************************************************)
EXTENDS Integers, Sequences, FiniteSets, Bags

\* ------------------------------------------------------------- bounds
MaxReq == 2        \* webhook deliveries in one behaviour
MaxCalls == 2      \* direct add_coins / burn_coins calls in one behaviour
MaxFaults == 1     \* failing store / Stripe calls in one behaviour

\* ------------------------------------------------------------- constants
FREE_SIGNUP_COINS == 10

NoRef == "none"
UserIds == {"u1"}
AddAmounts == {0, 5}
BurnAmounts == {6, 11}

Routes == {"webhooks", "payments"}
Verdicts == {"ok", "ValueError", "SignatureVerificationError"}
HandlerFaults == {"none", "stripe", "update_cre", "update_exc", "tx_cre",
                  "tx_exc", "user_update"}

EventIds == {"evt_pay", "evt_sub", "evt_inv", "evt_upd", "evt_del", "evt_cus",
             "evt_misc"}
LifecycleEvents == {"evt_sub", "evt_inv", "evt_del", "evt_misc"}
\* customer.subscription.updated events: a cancellation at period end, one
\* together with a plan change, a reactivation on another plan, and a
\* subscription that is past due and carries no product name.
SubscriptionUpdates == {"evt_upd", "evt_down", "evt_react", "evt_due"}
\* invoice.payment_succeeded for the first payment of a subscription.
FirstInvoices == {"evt_first"}

\* The Stripe objects the events carry (event["data"]["object"], with the
\* product of the first line item expanded).
Event(e) ==
    CASE e = "evt_pay" ->
           [type |-> "checkout.session.completed", user |-> "u1",
            customer |-> "cus_1", subscription |-> NoRef, mode |-> "payment",
            coins |-> 5, plan |-> "Pack", charge |-> "pi_pay",
            reason |-> NoRef, cancel |-> FALSE, status |-> NoRef,
            email |-> NoRef]
      [] e = "evt_sub" ->
           [type |-> "checkout.session.completed", user |-> "u1",
            customer |-> "cus_1", subscription |-> "sub_1",
            mode |-> "subscription", coins |-> 5, plan |-> "Pro",
            charge |-> "pi_sub", reason |-> NoRef, cancel |-> FALSE,
            status |-> NoRef, email |-> NoRef]
      [] e = "evt_inv" ->
           [type |-> "invoice.payment_succeeded", user |-> NoRef,
            customer |-> "cus_1", subscription |-> "sub_1", mode |-> NoRef,
            coins |-> 5, plan |-> "Pro", charge |-> "ch_inv",
            reason |-> "subscription_cycle", cancel |-> FALSE,
            status |-> NoRef, email |-> NoRef]
      [] e = "evt_first" ->
           [type |-> "invoice.payment_succeeded", user |-> NoRef,
            customer |-> "cus_1", subscription |-> "sub_1", mode |-> NoRef,
            coins |-> 5, plan |-> "Pro", charge |-> "ch_first",
            reason |-> "subscription_create", cancel |-> FALSE,
            status |-> NoRef, email |-> NoRef]
      [] e = "evt_upd" ->
           [type |-> "customer.subscription.updated", user |-> NoRef,
            customer |-> "cus_1", subscription |-> "sub_1", mode |-> NoRef,
            coins |-> 0, plan |-> "Pro", charge |-> NoRef, reason |-> NoRef,
            cancel |-> TRUE, status |-> "active", email |-> NoRef]
      [] e = "evt_down" ->
           [type |-> "customer.subscription.updated", user |-> NoRef,
            customer |-> "cus_1", subscription |-> "sub_1", mode |-> NoRef,
            coins |-> 0, plan |-> "Max", charge |-> NoRef, reason |-> NoRef,
            cancel |-> TRUE, status |-> "active", email |-> NoRef]
      [] e = "evt_react" ->
           [type |-> "customer.subscription.updated", user |-> NoRef,
            customer |-> "cus_1", subscription |-> "sub_1", mode |-> NoRef,
            coins |-> 0, plan |-> "Max", charge |-> NoRef, reason |-> NoRef,
            cancel |-> FALSE, status |-> "active", email |-> NoRef]
      [] e = "evt_due" ->
           [type |-> "customer.subscription.updated", user |-> NoRef,
            customer |-> "cus_1", subscription |-> "sub_1", mode |-> NoRef,
            coins |-> 0, plan |-> NoRef, charge |-> NoRef, reason |-> NoRef,
            cancel |-> FALSE, status |-> "past_due", email |-> NoRef]
      [] e = "evt_del" ->
           [type |-> "customer.subscription.deleted", user |-> NoRef,
            customer |-> "cus_1", subscription |-> "sub_1", mode |-> NoRef,
            coins |-> 0, plan |-> "Pro", charge |-> NoRef, reason |-> NoRef,
            cancel |-> FALSE, status |-> "canceled", email |-> NoRef]
      [] e = "evt_cus" ->
           [type |-> "customer.created", user |-> NoRef,
            customer |-> "cus_1", subscription |-> NoRef, mode |-> NoRef,
            coins |-> 0, plan |-> NoRef, charge |-> NoRef, reason |-> NoRef,
            cancel |-> FALSE, status |-> NoRef, email |-> "u1@mail"]
      [] OTHER ->
           [type |-> "charge.refunded", user |-> NoRef,
            customer |-> "cus_1", subscription |-> NoRef, mode |-> NoRef,
            coins |-> 0, plan |-> NoRef, charge |-> NoRef, reason |-> NoRef,
            cancel |-> FALSE, status |-> NoRef, email |-> NoRef]

EmailOf(u) == "u1@mail"
PasswordOf(u) == "pw_u1"
\* The access token the auth backend issues for a user.
TokenOf(u) == "tok_u1"

\* What the API requests carry.
Passwords == {"pw_u1", "pw_wrong"}
Tokens == {"tok_u1", "tok_forged"}
INTERNAL_API_SECRET_TOKEN == "internal-secret"
\* The X-Internal-API-Key header: right, wrong, or not sent.
Keys == {"internal-secret", "guess", NoRef}
EndpointAmounts == {0, 6, 20}
ProfileBodies == SUBSET {<<"name", "Ann">>, <<"subscription_status", "vip">>}
StatusEvents == {"evt_sub", "evt_upd", "evt_del"}
\* state values the auth backend hands out, one per oauth2_initiate
OAuthStates == {"st_1", "st_2"}
\* cost of the endpoints require_coins wraps: text chat and image generation
GEMINI_TEXT_COST == 1
IMAGE_GENERATION_COST == 5
ServiceCosts == {GEMINI_TEXT_COST, IMAGE_GENERATION_COST}

\* ------------------------------------------------------------- state
VARIABLES
    users,      \* users collection: id -> record
    txns,       \* transactions collection: a bag of rows
    processed,  \* processed_stripe_events collection: the event ids
    req,        \* the webhook requests: slot -> position and answer
    hist,       \* per event id, what the deliveries to webhooks.py did
    call,       \* the direct ledger calls: slot -> position and result
    reg,        \* what the last create_user returned
    faults,     \* store / Stripe calls that may still fail
    api,        \* the API requests: slot -> what the endpoint answered
    redis,      \* oauth:state:<state> keys: unset, stored or deleted
    cb          \* the OAuth callback requests: slot -> position and answer

vars == <<users, txns, processed, req, hist, call, reg, faults, api, redis,
         cb>>

NoUser == [exists |-> FALSE, coins |-> 0, status |-> NoRef, customer |-> NoRef,
           subscription |-> NoRef, plan |-> NoRef, name |-> NoRef,
           verified |-> FALSE]

IdleReq == [pc |-> "idle", ev |-> NoRef, route |-> NoRef, sig |-> NoRef,
            resp |-> 0, body |-> NoRef, checked |-> FALSE, out |-> NoRef,
            err |-> NoRef, wrote |-> FALSE]

IdleCall == [pc |-> "idle", op |-> NoRef, user |-> NoRef, amount |-> 0,
             seen |-> 0, ok |-> FALSE, msg |-> NoRef]

\* op = the endpoint, http = 0 while no answer is fixed yet, token = the
\* access token a login returned, body = the fields a profile update sent.
IdleApi == [op |-> NoRef, http |-> 0, detail |-> NoRef, token |-> NoRef,
            body |-> {}]

\* An OAuth callback request: state = the state parameter it carries,
\* passed = it got past the state lookup, new = auth_with_oauth2 took the
\* user for a new one, bonus = it credited the signup bonus.
IdleCb == [pc |-> "idle", state |-> NoRef, passed |-> FALSE, user |-> NoRef,
           new |-> FALSE, bonus |-> FALSE, http |-> 0, token |-> NoRef]

Init ==
    /\ users = [u \in UserIds |-> NoUser]
    /\ txns = EmptyBag
    /\ processed = {}
    /\ req = [d \in 1..MaxReq |-> IdleReq]
    /\ hist = [e \in EventIds \cup SubscriptionUpdates \cup FirstInvoices |->
                 [credits |-> 0, returned |-> FALSE, acked |-> FALSE]]
    /\ call = [c \in 1..MaxCalls |-> IdleCall]
    /\ reg = NoRef
    /\ faults = MaxFaults
    /\ api = [c \in 1..MaxCalls |-> IdleApi]
    /\ redis = [s \in OAuthStates |-> "unset"]
    /\ cb = [k \in 1..MaxCalls |-> IdleCb]

\* A call fails only while the fault budget lasts.
MayFail(f) == f = "none" \/ faults > 0
Spend(f) == IF f = "none" THEN faults ELSE faults - 1

\* ------------------------------------------------------------- pocketbase_service
\* An audit write that cannot fail.
CreateTransactionRecordAlways(T, uid, ttype, amount, charge, f) ==
    T (+) SetToBag({[user |-> uid, type |-> ttype, amount |-> amount,
                     charge |-> charge]})

\* A store that keeps only the newest row.
CreateTransactionRecordReplace(T, uid, ttype, amount, charge, f) ==
    SetToBag({[user |-> uid, type |-> ttype, amount |-> amount,
               charge |-> charge]})

\* _create_transaction_record: one row, unless the store refuses it (the
\* ClientResponseError is logged and swallowed).
CreateTransactionRecord(T, uid, ttype, amount, charge, f) ==
    IF f = "tx_cre" THEN T
    ELSE T (+) SetToBag({[user |-> uid, type |-> ttype, amount |-> amount,
                          charge |-> charge]})

\* get_user_by_stripe_customer_id: the first user with that customer id.
UserByCustomer(U, cust) ==
    IF \E u \in UserIds : U[u].exists /\ U[u].customer = cust
    THEN CHOOSE u \in UserIds : U[u].exists /\ U[u].customer = cust
    ELSE NoRef

\* update_user: writes the fields, or changes nothing when the store fails
\* (it returns (False, message), never raises).
UpdateUser(U, uid, new, f) ==
    IF f = "user_update" \/ ~U[uid].exists THEN U ELSE [U EXCEPT ![uid] = new]

\* add_coins.  ret: "ok" = (True, ..), "fail" = (False, ..), "raise" = an
\* exception other than ClientResponseError left the function.
AddCoinsRun(U, T, uid, amount, ttype, charge, f) ==
    IF amount <= 0 THEN [U |-> U, T |-> T, ret |-> "ok", credit |-> 0]
    ELSE IF ~U[uid].exists \/ f = "update_cre"
    THEN [U |-> U, T |-> T, ret |-> "fail", credit |-> 0]
    ELSE IF f = "update_exc"
    THEN [U |-> U, T |-> T, ret |-> "raise", credit |-> 0]
    ELSE LET U2 == [U EXCEPT ![uid].coins = @ + amount] IN
         IF f = "tx_exc"
         THEN [U |-> U2, T |-> T, ret |-> "raise", credit |-> 1]
         ELSE [U |-> U2,
               T |-> CreateTransactionRecord(T, uid, ttype, amount, charge, f),
               ret |-> "ok", credit |-> 1]

\* A check that lets a debit of one coin too many through.
InsufficientOffByOne(coins, amount) == coins + 1 < amount

\* burn_coins, the check on the freshly read record.
Insufficient(coins, amount) == coins < amount

\* The amount burn_coins logs for a spend.
SpendAmount(amount) == 0 - amount

\* A decrement that refuses to take the balance below zero.
CoinsMinusGuarded(coins, amount) ==
    IF coins < amount THEN coins ELSE coins - amount

\* The store's "coins-" modifier: a relative decrement of the stored value,
\* whatever that value is by now.
CoinsMinus(coins, amount) == coins - amount

FirstIdleCall(c) ==
    /\ call[c].pc = "idle"
    /\ \A k \in 1..MaxCalls : k < c => call[k].pc # "idle"

\* create_user(email, password, name)
CreateUser(u, f) ==
    /\ f \in {"none", "update_cre", "verify_cre", "tx_cre"}
    /\ MayFail(f)
    /\ faults' = Spend(f)
    /\ IF f = "update_cre" \/ users[u].exists
       THEN /\ reg' = "error"
            /\ UNCHANGED <<users, txns>>
       ELSE /\ users' = [users EXCEPT ![u] =
                           [NoUser EXCEPT !.exists = TRUE,
                                          !.coins = FREE_SIGNUP_COINS,
                                          !.status = "inactive"]]
            /\ IF f = "verify_cre"
               THEN reg' = "error" /\ txns' = txns
               ELSE /\ reg' = "ok"
                    /\ txns' = CreateTransactionRecord(txns, u, "bonus",
                                   FREE_SIGNUP_COINS, NoRef, f)
    /\ UNCHANGED <<processed, req, hist, call, api, redis, cb>>

\* add_coins(user_id, amount, ...) called on its own
AddCoins(c, u, n, f) ==
    /\ FirstIdleCall(c)
    /\ f \in {"none", "update_cre", "update_exc", "tx_cre", "tx_exc"}
    /\ MayFail(f)
    /\ faults' = Spend(f)
    /\ LET a == AddCoinsRun(users, txns, u, n, "purchase", NoRef, f) IN
       /\ users' = a.U
       /\ txns' = a.T
       /\ call' = [call EXCEPT ![c] =
             [pc |-> "done", op |-> "add_coins", user |-> u, amount |-> n,
              seen |-> 0, ok |-> (a.ret = "ok"),
              msg |-> IF a.ret = "raise" THEN "raised"
                      ELSE IF a.ret = "fail" THEN "error"
                      ELSE IF n <= 0 THEN "No coins to add."
                      ELSE "Coins added successfully"]]
    /\ UNCHANGED <<processed, req, hist, reg, api, redis, cb>>

\* burn_coins, first half: get_user_by_id and the balance check.  The call
\* is over when the user is missing or the balance read is too low.
BurnCoinsRead(u, n) ==
    LET base == [IdleCall EXCEPT !.op = "burn_coins", !.user = u,
                                 !.amount = n] IN
    IF ~users[u].exists
    THEN [base EXCEPT !.pc = "done", !.msg = "User not found."]
    ELSE IF Insufficient(users[u].coins, n)
    THEN [base EXCEPT !.pc = "done", !.seen = users[u].coins,
                      !.msg = "Insufficient coins."]
    ELSE [base EXCEPT !.pc = "update", !.seen = users[u].coins]

\* burn_coins called on its own
BurnCheck(c, u, n) ==
    /\ FirstIdleCall(c)
    /\ call' = [call EXCEPT ![c] = BurnCoinsRead(u, n)]
    /\ UNCHANGED <<users, txns, processed, req, hist, reg, faults, api, redis, cb>>

\* burn_coins, second half: the "coins-" update and the audit row
BurnUpdate(c, f) ==
    /\ call[c].pc = "update"
    /\ f \in {"none", "update_cre", "update_exc", "tx_cre", "tx_exc"}
    /\ MayFail(f)
    /\ faults' = Spend(f)
    /\ LET u == call[c].user
           n == call[c].amount IN
       IF f \in {"update_cre", "update_exc"}
       THEN /\ call' = [call EXCEPT ![c].pc = "done",
                          ![c].msg = IF f = "update_cre"
                                     THEN "An error occurred" ELSE "raised"]
            /\ UNCHANGED <<users, txns>>
       ELSE /\ users' = [users EXCEPT ![u].coins = CoinsMinus(@, n)]
            /\ IF f = "tx_exc"
               THEN /\ txns' = txns
                    /\ call' = [call EXCEPT ![c].pc = "done",
                                            ![c].msg = "raised"]
               ELSE /\ txns' = CreateTransactionRecord(txns, u, "spend",
                                    SpendAmount(n), NoRef, f)
                    /\ call' = [call EXCEPT ![c].pc = "done", ![c].ok = TRUE,
                                     ![c].msg = "Successfully burned"]
    /\ UNCHANGED <<processed, req, hist, reg, api, redis, cb>>


\* ------------------------------------------------------------- webhooks.py
\* What a handler run leaves: the collections, out = "returned" or "raised"
\* (an exception left the handler), err = what went wrong inside it, and
\* credit = 1 when the run incremented a balance.
Ran(U, T, out, err, credit) ==
    [U |-> U, T |-> T, out |-> out, err |-> err, credit |-> credit]

handle_checkout_completed(U, T, s, f) ==
    IF s.user = NoRef THEN Ran(U, T, "returned", "none", 0)
    ELSE IF ~U[s.user].exists THEN Ran(U, T, "returned", "none", 0)
    ELSE IF f = "stripe" THEN Ran(U, T, "raised", "stripe", 0)
    ELSE
      LET a == AddCoinsRun(U, T, s.user, s.coins,
                   IF s.mode = "payment" THEN "purchase" ELSE "subscription",
                   s.charge, f)
          linked == IF s.customer # NoRef
                    THEN [a.U[s.user] EXCEPT !.customer = s.customer]
                    ELSE a.U[s.user]
          new == IF s.mode = "subscription"
                 THEN [linked EXCEPT !.subscription = s.subscription,
                                     !.status = "active", !.plan = s.plan]
                 ELSE linked
      IN IF a.ret = "raise"
         THEN Ran(a.U, a.T, "raised",
                  IF a.credit = 1 THEN "audit" ELSE "credit", a.credit)
         ELSE Ran(UpdateUser(a.U, s.user, new, f), a.T, "returned",
                  IF a.ret = "fail" THEN "credit"
                  ELSE IF f = "tx_cre" THEN "audit"
                  ELSE IF f = "user_update" THEN "user_update" ELSE "none",
                  a.credit)

\* A renewal handler that credits whatever the billing reason is.
InvoiceSucceededAnyReason(U, T, inv, f) ==
    LET u == UserByCustomer(U, inv.customer) IN
      IF u = NoRef THEN Ran(U, T, "returned", "none", 0)
      ELSE LET a == AddCoinsRun(U, T, u, inv.coins, "renewal", inv.charge, f)
           IN Ran(a.U, a.T, "returned", "none", a.credit)

handle_invoice_succeeded(U, T, inv, f) ==
    IF inv.reason # "subscription_cycle" THEN Ran(U, T, "returned", "none", 0)
    ELSE IF inv.customer = NoRef THEN Ran(U, T, "returned", "none", 0)
    ELSE LET u == UserByCustomer(U, inv.customer) IN
      IF u = NoRef THEN Ran(U, T, "returned", "none", 0)
      ELSE LET a == AddCoinsRun(U, T, u, inv.coins, "renewal", inv.charge, f)
           IN Ran(a.U, a.T, "returned",
                  IF a.credit = 0 /\ a.ret # "ok" THEN "credit"
                  ELSE IF f \in {"tx_cre", "tx_exc"} /\ a.credit = 1
                  THEN "audit" ELSE "none",
                  a.credit)

\* A handler that mirrors the status and leaves the plan name alone.
SubscriptionUpdatedStatusOnly(U, T, sub, f) ==
    LET u == UserByCustomer(U, sub.customer) IN
      IF u = NoRef THEN Ran(U, T, "returned", "none", 0)
      ELSE
        LET new == IF sub.cancel
                   THEN [U[u] EXCEPT !.status = "canceling"]
                   ELSE IF sub.status = "active"
                   THEN [U[u] EXCEPT !.status = "active"]
                   ELSE U[u]
        IN Ran(UpdateUser(U, u, new, f), T, "returned", "none", 0)

handle_subscription_updated(U, T, sub, f) ==
    LET u == UserByCustomer(U, sub.customer) IN
      IF u = NoRef THEN Ran(U, T, "returned", "none", 0)
      ELSE
        LET named == IF sub.plan # NoRef /\ sub.plan # U[u].plan
                     THEN [U[u] EXCEPT !.plan = sub.plan] ELSE U[u]
            new == IF sub.cancel
                   THEN [named EXCEPT !.status = "canceling"]
                   ELSE IF sub.status = "active"
                   THEN [named EXCEPT !.status = "active"]
                   ELSE named
        IN IF new = U[u] THEN Ran(U, T, "returned", "none", 0)
           ELSE Ran(UpdateUser(U, u, new, f), T, "returned",
                    IF f = "user_update" THEN "user_update" ELSE "none", 0)

\* pocketbase_service has no get_user_by_stripe_subscription_id: the call
\* raises AttributeError before anything is read.
handle_subscription_deleted(U, T, sub, f) ==
    Ran(U, T, "raised", "missing_fn", 0)

\* pocketbase_service has no get_user_by_email either.
handle_customer_created(U, T, cust, f) ==
    IF cust.email = NoRef THEN Ran(U, T, "returned", "none", 0)
    ELSE Ran(U, T, "raised", "missing_fn", 0)

EVENT_HANDLERS ==
    {"checkout.session.completed", "invoice.payment_succeeded",
     "customer.subscription.deleted", "customer.subscription.updated",
     "customer.created"}

\* A router that sends every event to the first handler of the table.
DispatchFirst(U, T, o, f) == handle_checkout_completed(U, T, o, f)

Dispatch(U, T, o, f) ==
    CASE o.type = "checkout.session.completed" ->
            handle_checkout_completed(U, T, o, f)
      [] o.type = "invoice.payment_succeeded" ->
            handle_invoice_succeeded(U, T, o, f)
      [] o.type = "customer.subscription.updated" ->
            handle_subscription_updated(U, T, o, f)
      [] o.type = "customer.subscription.deleted" ->
            handle_subscription_deleted(U, T, o, f)
      [] OTHER -> handle_customer_created(U, T, o, f)


\* ------------------------------------------------------------- payments.py
\* The handlers of the route the API router mounts.  They use the older
\* pocketbase_service; every failure inside them is printed and swallowed.
legacy_checkout_completed(U, T, s, f) ==
    IF s.user = NoRef THEN Ran(U, T, "returned", "none", 0)
    ELSE IF ~U[s.user].exists THEN Ran(U, T, "returned", "none", 0)
    ELSE
      LET linked == IF s.customer # NoRef
                    THEN [U[s.user] EXCEPT !.customer = s.customer]
                    ELSE U[s.user]
          new == IF s.mode = "subscription"
                 THEN [linked EXCEPT !.subscription = s.subscription,
                          !.status = "active",
                          !.plan = IF f = "stripe" THEN @ ELSE s.plan]
                 ELSE linked
          U1 == UpdateUser(U, s.user, new, f)
      IN IF f = "stripe" /\ s.mode # "subscription"
         THEN Ran(U1, T, "returned", "stripe", 0)
         ELSE LET a == AddCoinsRun(U1, T, s.user, s.coins,
                          IF s.mode = "payment" THEN "purchase"
                          ELSE "subscription", s.charge, f)
              IN Ran(a.U, a.T, "returned",
                     IF a.credit = 0 /\ a.ret # "ok" THEN "credit"
                     ELSE IF f \in {"tx_cre", "tx_exc"} /\ a.credit = 1
                     THEN "audit"
                     ELSE IF f \in {"user_update", "stripe"} THEN f
                     ELSE "none",
                     a.credit)

legacy_subscription_deleted(U, T, sub, f) ==
    LET u == UserByCustomer(U, sub.customer) IN
    IF u # NoRef /\ U[u].subscription = sub.subscription
    THEN Ran(UpdateUser(U, u, [U[u] EXCEPT !.status = "cancelled",
                                          !.plan = NoRef], f),
             T, "returned",
             IF f = "user_update" THEN "user_update" ELSE "none", 0)
    ELSE Ran(U, T, "returned", "none", 0)

legacy_subscription_updated(U, T, sub, f) ==
    LET u == UserByCustomer(U, sub.customer) IN
    IF u = NoRef THEN Ran(U, T, "returned", "none", 0)
    ELSE IF U[u].subscription # sub.subscription
    THEN Ran(U, T, "returned", "none", 0)
    ELSE IF sub.cancel
    THEN Ran(UpdateUser(U, u, [U[u] EXCEPT !.status = "canceling"], f),
             T, "returned",
             IF f = "user_update" THEN "user_update" ELSE "none", 0)
    ELSE IF sub.status = "active"
    THEN Ran(UpdateUser(U, u, [U[u] EXCEPT !.status = "active"], f),
             T, "returned",
             IF f = "user_update" THEN "user_update" ELSE "none", 0)
    ELSE Ran(U, T, "returned", "none", 0)

legacy_customer_created(U, T, cust, f) ==
    IF cust.email = NoRef THEN Ran(U, T, "returned", "none", 0)
    ELSE IF \E u \in UserIds : U[u].exists /\ EmailOf(u) = cust.email
    THEN LET u == CHOOSE w \in UserIds : U[w].exists /\ EmailOf(w) = cust.email
         IN IF U[u].customer = NoRef
            THEN Ran(UpdateUser(U, u, [U[u] EXCEPT !.customer = cust.customer],
                                f),
                     T, "returned",
                     IF f = "user_update" THEN "user_update" ELSE "none", 0)
            ELSE Ran(U, T, "returned", "none", 0)
    ELSE Ran(U, T, "returned", "none", 0)

LegacyDispatch(U, T, o, f) ==
    CASE o.type = "checkout.session.completed" ->
            legacy_checkout_completed(U, T, o, f)
      [] o.type = "invoice.payment_succeeded" ->
            handle_invoice_succeeded(U, T, o, f)
      [] o.type = "customer.subscription.updated" ->
            legacy_subscription_updated(U, T, o, f)
      [] o.type = "customer.subscription.deleted" ->
            legacy_subscription_deleted(U, T, o, f)
      [] OTHER -> legacy_customer_created(U, T, o, f)


\* ------------------------------------------------------------- the webhook routes
FirstIdleReq(d) ==
    /\ req[d].pc = "idle"
    /\ \A k \in 1..MaxReq : k < d => req[k].pc # "idle"

\* An answered request: what it was asked with and what it answered.
Answered(r, status, body) ==
    [IdleReq EXCEPT !.pc = "done", !.sig = r.sig, !.resp = status,
                    !.body = body]

\* A route that only catches ValueError lets a bad signature through.
RejectedPayloadOnly(v) == v = "ValueError"

\* stripe.Webhook.construct_event raised: the request is answered 400.
Rejected(v) == v # "ok"

\* A lookup that never finds the marker.
IsDuplicateNever(e) == FALSE

\* The idempotency lookup found the event id.
IsDuplicate(e) == e \in processed

\* The marker written whatever the handler did.
AfterHandlerAlways(out) == "record"

\* Where stripe_webhook goes once the handler is back: on to the marker when
\* it returned, to the 500 answer when it raised.
AfterHandler(out) == IF out = "raised" THEN "fail" ELSE "record"

\* The detail of the 400 answer: webhooks.py tells the two errors apart,
\* payments.py catches every exception alike.
RejectionDetail(r, v) ==
    IF r = "payments" THEN "Webhook error"
    ELSE IF v = "ValueError" THEN "Invalid payload"
    ELSE "Webhook signature error"

\* POST /webhooks/stripe and POST /payments/stripe-webhook, up to
\* construct_event.  v is what construct_event does with the payload and the
\* signature header; a request it refuses carries no event.
Receive(d, e, r, v) ==
    /\ FirstIdleReq(d)
    /\ Rejected(v) => e = NoRef
    /\ ~Rejected(v) => e \in EventIds \cup SubscriptionUpdates \cup FirstInvoices
    /\ req' = [req EXCEPT ![d] =
          IF Rejected(v)
          THEN Answered([IdleReq EXCEPT !.sig = v], 400, RejectionDetail(r, v))
          ELSE [IdleReq EXCEPT !.pc = IF r = "webhooks" THEN "check"
                                      ELSE "handle",
                               !.ev = e, !.route = r, !.sig = v]]
    /\ UNCHANGED <<users, txns, processed, hist, call, reg, faults, api, redis, cb>>

\* webhooks.py: the lookup in processed_stripe_events
Check(d, f) ==
    /\ req[d].pc = "check"
    /\ f \in {"none", "lookup"}
    /\ MayFail(f)
    /\ faults' = Spend(f)
    /\ req' = [req EXCEPT ![d] =
          IF f = "lookup"
          THEN Answered(@, 500, "Could not verify event idempotency.")
          ELSE IF IsDuplicate(req[d].ev)
          THEN Answered(@, 200, "duplicate ignored")
          ELSE [@ EXCEPT !.pc = "handle", !.checked = TRUE]]
    /\ UNCHANGED <<users, txns, processed, hist, call, reg, api, redis, cb>>

\* The dispatch inside stripe_webhook: a subscription update is first
\* retrieved from Stripe with its product expanded.
RunHandler(U, T, o, f) ==
    IF o.type = "customer.subscription.updated" /\ f = "stripe"
    THEN Ran(U, T, "raised", "stripe", 0)
    ELSE Dispatch(U, T, o, f)

\* The fault the handler meets; a failing marker write comes after it.
HandlerFault(f) == IF f = "marker" THEN "none" ELSE f

\* webhooks.py: the handler of the event type, if the table has one, then
\* the marker and the answer.  A fault is taken only where the run meets
\* it.  A failure of the marker write (the id exists by now, or the store
\* fails) is logged only.
Handle(d, f) ==
    /\ req[d].pc = "handle"
    /\ req[d].route = "webhooks"
    /\ f \in HandlerFaults \cup {"marker"}
    /\ MayFail(f)
    /\ LET e == req[d].ev
           o == Event(e) IN
       IF o.type \notin EVENT_HANDLERS
       THEN /\ f = "none"
            /\ req' = [req EXCEPT ![d] = Answered(@, 200, "received")]
            /\ UNCHANGED <<users, txns, processed, hist, faults>>
       ELSE LET h == RunHandler(users, txns, o, HandlerFault(f))
                marker == AfterHandler(h.out) = "record"
                stored == marker /\ f # "marker" /\ e \notin processed
                met == o.user # NoRef /\ users[o.user].exists
            IN /\ f \notin {"none", "marker"}
                    => h # RunHandler(users, txns, o, "none")
               /\ f = "marker" => marker
               /\ users' = h.U
               /\ txns' = h.T
               /\ faults' = Spend(f)
               /\ processed' = IF stored THEN processed \cup {e}
                               ELSE processed
               /\ hist' = [hist EXCEPT
                     ![e].credits = @ + h.credit,
                     ![e].returned = @ \/ h.out = "returned",
                     ![e].acked = @ \/ (marker /\ met)]
               /\ req' = [req EXCEPT ![d] =
                     [Answered(@, IF marker THEN 200 ELSE 500,
                               IF marker THEN "received" ELSE "handler error")
                      EXCEPT !.out = h.out, !.err = h.err, !.wrote = stored]]
    /\ UNCHANGED <<call, reg, api, redis, cb>>

\* payments.py: the handler, straight after the verified event
HandleLegacy(d, f) ==
    /\ req[d].pc = "handle"
    /\ req[d].route = "payments"
    /\ f \in HandlerFaults
    /\ MayFail(f)
    /\ LET o == Event(req[d].ev) IN
       IF o.type \notin EVENT_HANDLERS
       THEN /\ f = "none"
            /\ req' = [req EXCEPT ![d] = Answered(@, 200, "received")]
            /\ UNCHANGED <<users, txns, faults>>
       ELSE LET h == LegacyDispatch(users, txns, o, f)
            IN /\ f # "none" => h # LegacyDispatch(users, txns, o, "none")
               /\ users' = h.U
               /\ txns' = h.T
               /\ faults' = Spend(f)
               /\ req' = [req EXCEPT ![d] =
                     [Answered(@, 200, "received")
                      EXCEPT !.out = h.out, !.err = h.err]]
    /\ UNCHANGED <<processed, hist, call, reg, api, redis, cb>>


\* ------------------------------------------------------------- the API endpoints
\* confirm_verification: the auth backend marks the account verified.
ConfirmVerification(u) ==
    /\ users[u].exists
    /\ ~users[u].verified
    /\ users' = [users EXCEPT ![u].verified = TRUE]
    /\ UNCHANGED <<txns, processed, req, hist, call, reg, faults, api, redis, cb>>

\* auth_with_password: the token of the account, or None when the backend
\* refuses the credentials or fails.
auth_with_password(u, pw, f) ==
    IF f = "none" /\ users[u].exists /\ pw = PasswordOf(u)
    THEN TokenOf(u) ELSE NoRef

\* A login that does not look at the verified flag.
VerifiedAlways(record) == TRUE

\* auth_data.record.verified
Verified(record) == record.verified

\* login_for_access_token
LoginAnswer(u, pw, f) ==
    LET token == auth_with_password(u, pw, f) IN
    IF token = NoRef
    THEN [IdleApi EXCEPT !.op = "login", !.http = 401,
                         !.detail = "Incorrect email or password"]
    ELSE IF ~Verified(users[u])
    THEN [IdleApi EXCEPT !.op = "login", !.http = 403,
                         !.detail = "Account not verified"]
    ELSE [IdleApi EXCEPT !.op = "login", !.http = 200, !.detail = "bearer",
                         !.token = token]

\* POST /auth/token
Login(c, u, pw, f) ==
    /\ FirstIdleCall(c)
    /\ f \in {"none", "auth"}
    /\ MayFail(f)
    /\ f # "none" => LoginAnswer(u, pw, f) # LoginAnswer(u, pw, "none")
    /\ faults' = Spend(f)
    /\ api' = [api EXCEPT ![c] = LoginAnswer(u, pw, f)]
    /\ call' = [call EXCEPT ![c] = [IdleCall EXCEPT !.pc = "done"]]
    /\ UNCHANGED <<users, txns, processed, req, hist, reg, redis, cb>>

\* get_user_from_token: the user of a token the backend has issued (to a
\* password login or an OAuth login), or None.
get_user_from_token(token) ==
    IF /\ \E c \in 1..MaxCalls : api[c].token = token \/ cb[c].token = token
       /\ \E u \in UserIds : users[u].exists /\ TokenOf(u) = token
    THEN CHOOSE u \in UserIds : users[u].exists /\ TokenOf(u) = token
    ELSE NoRef

\* get_internal_api_key: 0 when the key is right.  Header(...) makes the
\* header required, so a request without it fails validation (422) and the
\* function body is not reached.
get_internal_api_key(key) ==
    IF key = NoRef THEN 422
    ELSE IF key # INTERNAL_API_SECRET_TOKEN THEN 401
    ELSE 0

\* A gate that does not look at the subscription.
BurnGateNoStatus(u, key, n) ==
    IF u = NoRef
    THEN [http |-> 401, detail |-> "Invalid authentication credentials"]
    ELSE IF get_internal_api_key(key) = 401
    THEN [http |-> 401, detail |-> "Invalid or missing Internal API Key"]
    ELSE IF get_internal_api_key(key) = 422 \/ n <= 0
    THEN [http |-> 422, detail |-> "validation error"]
    ELSE [http |-> 0, detail |-> NoRef]

\* What stops burn_user_coins before burn_coins: the dependencies in the
\* order they are declared, the validation of header and body, then the
\* subscription check.  http = 0 lets the request through.
BurnGate(u, key, n) ==
    IF u = NoRef
    THEN [http |-> 401, detail |-> "Invalid authentication credentials"]
    ELSE IF get_internal_api_key(key) = 401
    THEN [http |-> 401, detail |-> "Invalid or missing Internal API Key"]
    ELSE IF get_internal_api_key(key) = 422 \/ n <= 0
    THEN [http |-> 422, detail |-> "validation error"]
    ELSE IF users[u].status # "active"
    THEN [http |-> 403, detail |-> "Coin spending is only allowed with an active subscription."]
    ELSE [http |-> 0, detail |-> NoRef]

\* POST /users/me/burn up to the read inside burn_coins; BurnUpdate is the
\* rest of burn_coins.
burn_user_coins(c, token, key, n) ==
    /\ FirstIdleCall(c)
    /\ LET u == get_user_from_token(token)
           g == BurnGate(u, key, n) IN
       /\ api' = [api EXCEPT ![c] =
             [IdleApi EXCEPT !.op = "burn", !.http = g.http,
                             !.detail = g.detail]]
       /\ call' = [call EXCEPT ![c] =
             IF g.http # 0 THEN [IdleCall EXCEPT !.pc = "done"]
             ELSE BurnCoinsRead(u, n)]
    /\ UNCHANGED <<users, txns, processed, req, hist, reg, faults, redis, cb>>

\* "Insufficient coins" in message
MentionsInsufficient(msg) == msg = "Insufficient coins."

\* An endpoint that answers every ledger failure alike.
BurnStatusFlat(ok, msg) ==
    IF ok THEN 200 ELSE IF msg = "raised" THEN 500 ELSE 400

\* burn_user_coins, the status for what burn_coins returned (an exception
\* that left burn_coins is a 500).
BurnStatus(ok, msg) ==
    IF ok THEN 200
    ELSE IF msg = "raised" THEN 500
    ELSE IF MentionsInsufficient(msg) THEN 402
    ELSE 400

\* The answer of the burn request in slot c, once there is one.
BurnAnswer(c) ==
    IF api[c].http # 0
    THEN [http |-> api[c].http, detail |-> api[c].detail]
    ELSE IF call[c].pc # "done"
    THEN [http |-> 0, detail |-> NoRef]
    ELSE [http |-> BurnStatus(call[c].ok, call[c].msg),
          detail |-> IF call[c].ok THEN "Coins burned successfully."
                     ELSE call[c].msg]

\* A request model that lets every field of the body through.
UserUpdateRequestAny(body) == body

\* UserUpdateRequest(...).model_dump(exclude_unset=True): the fields the
\* model declares, of those the body sets.
UserUpdateRequest(body) == {p \in body : p[1] \in {"name"}}

\* The record with the fields of an update written into it.
WithData(record, data) ==
    [record EXCEPT
       !.name = IF \E p \in data : p[1] = "name"
                THEN (CHOOSE p \in data : p[1] = "name")[2] ELSE @,
       !.status = IF \E p \in data : p[1] = "subscription_status"
                  THEN (CHOOSE p \in data : p[1] = "subscription_status")[2]
                  ELSE @]

\* PATCH /users/me
update_users_me(c, token, body, f) ==
    /\ FirstIdleCall(c)
    /\ f \in {"none", "user_update"}
    /\ MayFail(f)
    /\ LET u == get_user_from_token(token)
           update_data == UserUpdateRequest(body)
           base == [IdleApi EXCEPT !.op = "update_me", !.body = body] IN
       IF u = NoRef \/ update_data = {}
       THEN /\ f = "none"
            /\ api' = [api EXCEPT ![c] =
                  IF u = NoRef
                  THEN [base EXCEPT !.http = 401,
                          !.detail = "Invalid authentication credentials"]
                  ELSE [base EXCEPT !.http = 400,
                          !.detail = "No update data provided."]]
            /\ UNCHANGED <<users, faults>>
       ELSE /\ users' = UpdateUser(users, u, WithData(users[u], update_data),
                                   f)
            /\ faults' = Spend(f)
            /\ api' = [api EXCEPT ![c] =
                  IF f = "user_update"
                  THEN [base EXCEPT !.http = 500,
                                    !.detail = "Failed to update user"]
                  ELSE [base EXCEPT !.http = 200]]
    /\ call' = [call EXCEPT ![c] = [IdleCall EXCEPT !.pc = "done"]]
    /\ UNCHANGED <<txns, processed, req, hist, reg, redis, cb>>

\* ------------------------------------------------------------- the OAuth flow
\* oauth2_initiate: the state the backend issued is stored with the verifier.
oauth2_initiate(s) ==
    /\ redis[s] = "unset"
    /\ redis' = [redis EXCEPT ![s] = "stored"]
    /\ UNCHANGED <<users, txns, processed, req, hist, call, reg, faults, api,
                   cb>>

FirstIdleCb(k) ==
    /\ cb[k].pc = "idle"
    /\ \A j \in 1..MaxCalls : j < k => cb[j].pc # "idle"

\* oauth2_callback up to the state lookup: 400 unless the key is there.
\* get_oauth_state only reads; the key stays until delete_oauth_state.
CallbackLookup(k, s) ==
    /\ FirstIdleCb(k)
    /\ cb' = [cb EXCEPT ![k] =
          IF redis[s] # "stored"
          THEN [IdleCb EXCEPT !.pc = "done", !.state = s, !.http = 400]
          ELSE [IdleCb EXCEPT !.pc = "delete", !.state = s, !.passed = TRUE]]
    /\ UNCHANGED <<users, txns, processed, req, hist, call, reg, faults, api,
                   redis>>

\* oauth2_callback: delete_oauth_state
CallbackDelete(k) ==
    /\ cb[k].pc = "delete"
    /\ redis' = [redis EXCEPT ![cb[k].state] = "deleted"]
    /\ cb' = [cb EXCEPT ![k].pc = "auth"]
    /\ UNCHANGED <<users, txns, processed, req, hist, call, reg, faults, api>>

\* auth_with_oauth2: is_new_user = not hasattr(user, 'coins') or
\* user.coins == 0
IsNewUser(U, u) == U[u].coins = 0

\* auth_with_oauth2 up to the re-read of the record: the provider accepts
\* the code or not; the store creates the account on the first accepted
\* login (verified, nothing else set) and the record is read back.
CallbackAuth(k, u, r) ==
    /\ cb[k].pc = "auth"
    /\ r \in {"ok", "rejected"}
    /\ IF r = "rejected"
       THEN /\ cb' = [cb EXCEPT ![k].pc = "done", ![k].http = 401]
            /\ users' = users
       ELSE LET U == IF users[u].exists THEN users
                     ELSE [users EXCEPT ![u] =
                             [NoUser EXCEPT !.exists = TRUE,
                                            !.verified = TRUE]]
            IN /\ users' = U
               /\ cb' = [cb EXCEPT ![k] =
                     IF IsNewUser(U, u)
                     THEN [@ EXCEPT !.pc = "bonus", !.user = u, !.new = TRUE]
                     ELSE [@ EXCEPT !.pc = "done", !.user = u, !.http = 307,
                                    !.token = TokenOf(u)]]
    /\ UNCHANGED <<txns, processed, req, hist, call, reg, faults, api, redis>>

\* auth_with_oauth2: add_coins for the user taken for new, then the
\* redirect with the token (a failed credit is only logged).
CallbackBonus(k, f) ==
    /\ cb[k].pc = "bonus"
    /\ f \in {"none", "update_cre"}
    /\ MayFail(f)
    /\ faults' = Spend(f)
    /\ LET u == cb[k].user
           a == AddCoinsRun(users, txns, u, FREE_SIGNUP_COINS, "bonus", NoRef,
                            f)
       IN /\ users' = a.U
          /\ txns' = a.T
          /\ cb' = [cb EXCEPT ![k].pc = "done", ![k].bonus = (a.credit = 1),
                              ![k].http = 307, ![k].token = TokenOf(u)]
    /\ UNCHANGED <<processed, req, hist, call, reg, api, redis>>

\* ------------------------------------------------------------- decorators.py
\* require_coins, the pre-execution check: current_user is what the token
\* dependency resolved (None when the wrapper is called without one); the
\* wrapped call starts only when the balance read now covers the cost.
RequireCoins(c, u, cost) ==
    /\ FirstIdleCall(c)
    /\ u # NoRef => users[u].exists
    /\ LET base == [IdleApi EXCEPT !.op = "service"] IN
       IF u = NoRef
       THEN /\ api' = [api EXCEPT ![c] =
                  [base EXCEPT !.http = 401,
                               !.detail = "Could not validate credentials"]]
            /\ call' = [call EXCEPT ![c] = [IdleCall EXCEPT !.pc = "done"]]
       ELSE IF users[u].coins < cost
       THEN /\ api' = [api EXCEPT ![c] =
                  [base EXCEPT !.http = 402, !.detail = "Insufficient coins."]]
            /\ call' = [call EXCEPT ![c] = [IdleCall EXCEPT !.pc = "done"]]
       ELSE /\ api' = [api EXCEPT ![c] = base]
            /\ call' = [call EXCEPT ![c] =
                  [IdleCall EXCEPT !.pc = "service", !.op = "service",
                                   !.user = u, !.amount = cost,
                                   !.seen = users[u].coins]]
    /\ UNCHANGED <<users, txns, processed, req, hist, reg, faults, redis, cb>>

\* A wrapper that charges whatever the wrapped call did.
AfterServiceChargeAnyway(c, r) == BurnCoinsRead(call[c].user, call[c].amount)

\* require_coins after await func(...): an exception ends the request, a
\* result goes on to burn_coins, whose read is taken here.
AfterService(c, r) ==
    IF r = "raise" THEN [call[c] EXCEPT !.pc = "done"]
    ELSE BurnCoinsRead(call[c].user, call[c].amount)

\* The wrapped endpoint returns or raises (the endpoints turn every failure
\* of the client into an HTTPException, which the wrapper catches too).
ServiceCall(c, r) ==
    /\ call[c].pc = "service"
    /\ r \in {"ok", "raise"}
    /\ call' = [call EXCEPT ![c] = AfterService(c, r)]
    /\ api' = [api EXCEPT ![c] =
          IF r = "raise"
          THEN [@ EXCEPT !.http = 503,
                         !.detail = "The external service failed to process the request. You have not been charged."]
          ELSE @]
    /\ UNCHANGED <<users, txns, processed, req, hist, reg, faults, redis, cb>>

\* The answer of the wrapped request in slot c, once there is one: a result
\* of the wrapped call is returned with coins_burned = cost whatever
\* burn_coins returned; an exception that left burn_coins is a 500.
ServiceAnswer(c) ==
    IF api[c].http # 0
    THEN [http |-> api[c].http, coins_burned |-> 0]
    ELSE IF call[c].pc # "done"
    THEN [http |-> 0, coins_burned |-> 0]
    ELSE IF call[c].msg = "raised"
    THEN [http |-> 500, coins_burned |-> 0]
    ELSE [http |-> 200, coins_burned |-> call[c].amount]

\* ------------------------------------------------------------- specification
LedgerNext ==
    \/ \E u \in UserIds, f \in {"none", "update_cre", "verify_cre", "tx_cre"} :
          CreateUser(u, f)
    \/ \E c \in 1..MaxCalls, u \in UserIds, n \in AddAmounts,
          f \in {"none", "update_cre", "update_exc", "tx_cre", "tx_exc"} :
          AddCoins(c, u, n, f)
    \/ \E c \in 1..MaxCalls, u \in UserIds, n \in BurnAmounts :
          BurnCheck(c, u, n)
    \/ \E c \in 1..MaxCalls,
          f \in {"none", "update_cre", "update_exc", "tx_cre", "tx_exc"} :
          BurnUpdate(c, f)

WebhookNext ==
    \/ \E u \in UserIds : CreateUser(u, "none")
    \/ \E d \in 1..MaxReq, e \in EventIds \cup {NoRef}, v \in Verdicts :
          Receive(d, e, "webhooks", v)
    \/ \E d \in 1..MaxReq, f \in {"none", "lookup"} : Check(d, f)
    \/ \E d \in 1..MaxReq, f \in HandlerFaults \cup {"marker"} : Handle(d, f)

RoutesNext ==
    \/ \E u \in UserIds : CreateUser(u, "none")
    \/ \E d \in 1..MaxReq, e \in LifecycleEvents \cup {NoRef}, r \in Routes,
          v \in Verdicts : Receive(d, e, r, v)
    \/ \E d \in 1..MaxReq, f \in {"none", "lookup"} : Check(d, f)
    \/ \E d \in 1..MaxReq, f \in HandlerFaults \cup {"marker"} : Handle(d, f)
    \/ \E d \in 1..MaxReq, f \in HandlerFaults : HandleLegacy(d, f)

\* The burn endpoint for accounts in every subscription status: registered
\* or created by the OAuth login that issues the token, then moved by the
\* webhook handlers; logins and deliveries are taken one at a time.
GateNext ==
    \/ \E u \in UserIds : CreateUser(u, "none")
    \/ oauth2_initiate("st_1")
    \/ \E k \in 1..MaxCalls :
          /\ \A j \in 1..MaxReq : req[j].pc \in {"idle", "done"}
          /\ CallbackLookup(k, "st_1")
    \/ \E k \in 1..MaxCalls : CallbackDelete(k)
    \/ \E k \in 1..MaxCalls, u \in UserIds : CallbackAuth(k, u, "ok")
    \/ \E k \in 1..MaxCalls : CallbackBonus(k, "none")
    \/ \E d \in 1..MaxReq, e \in StatusEvents :
          /\ \A j \in 1..MaxReq : req[j].pc \in {"idle", "done"}
          /\ \A k \in 1..MaxCalls : cb[k].pc \in {"idle", "done"}
          /\ Receive(d, e, IF e = "evt_del" THEN "payments" ELSE "webhooks",
                     "ok")
    \/ \E d \in 1..MaxReq : Check(d, "none")
    \/ \E d \in 1..MaxReq : Handle(d, "none")
    \/ \E d \in 1..MaxReq : HandleLegacy(d, "none")
    \/ \E c \in 1..MaxCalls, u \in UserIds :
          burn_user_coins(c, TokenOf(u), INTERNAL_API_SECRET_TOKEN, 6)
    \/ \E c \in 1..MaxCalls : BurnUpdate(c, "none")

\* OAuth logins next to spends of the whole signup bonus.
OAuthNext ==
    \/ \E s \in OAuthStates : oauth2_initiate(s)
    \/ \E k \in 1..MaxCalls, s \in OAuthStates : CallbackLookup(k, s)
    \/ \E k \in 1..MaxCalls : CallbackDelete(k)
    \/ \E k \in 1..MaxCalls, u \in UserIds, r \in {"ok", "rejected"} :
          CallbackAuth(k, u, r)
    \/ \E k \in 1..MaxCalls, f \in {"none", "update_cre"} : CallbackBonus(k, f)
    \/ \E c \in 1..MaxCalls, u \in UserIds :
          BurnCheck(c, u, FREE_SIGNUP_COINS)
    \/ \E c \in 1..MaxCalls : BurnUpdate(c, "none")

\* The wrapped endpoints next to direct debits of the same user.
ServiceNext ==
    \/ \E u \in UserIds : CreateUser(u, "none")
    \/ \E c \in 1..MaxCalls, u \in UserIds \cup {NoRef}, cost \in ServiceCosts :
          RequireCoins(c, u, cost)
    \/ \E c \in 1..MaxCalls, r \in {"ok", "raise"} : ServiceCall(c, r)
    \/ \E c \in 1..MaxCalls, u \in UserIds, n \in BurnAmounts :
          BurnCheck(c, u, n)
    \/ \E c \in 1..MaxCalls,
          f \in {"none", "update_cre", "update_exc", "tx_cre", "tx_exc"} :
          BurnUpdate(c, f)

\* A subscription checkout and its invoices, first and renewal, on both
\* routes.
InvoiceNext ==
    \/ \E u \in UserIds : CreateUser(u, "none")
    \/ \E d \in 1..MaxReq, e \in {"evt_sub", "evt_inv"} \cup FirstInvoices,
          r \in Routes : Receive(d, e, r, "ok")
    \/ \E d \in 1..MaxReq : Check(d, "none")
    \/ \E d \in 1..MaxReq, f \in {"none", "update_cre", "tx_cre"} :
          Handle(d, f)
    \/ \E d \in 1..MaxReq, f \in {"none", "update_cre", "tx_cre"} :
          HandleLegacy(d, f)

\* Checkouts that link the customer, then subscription updates, on the
\* route with the idempotency check and with every call succeeding.
SubscriptionNext ==
    \/ \E u \in UserIds : CreateUser(u, "none")
    \/ \E d \in 1..MaxReq,
          e \in {"evt_pay", "evt_sub"} \cup SubscriptionUpdates :
          Receive(d, e, "webhooks", "ok")
    \/ \E d \in 1..MaxReq : Check(d, "none")
    \/ \E d \in 1..MaxReq : Handle(d, "none")

\* Sign-up, login and the burn endpoint, with a subscription checkout that
\* activates the account.
ApiNext ==
    \/ \E u \in UserIds : CreateUser(u, "none")
    \/ \E u \in UserIds : ConfirmVerification(u)
    \/ \E c \in 1..MaxCalls, u \in UserIds, pw \in Passwords,
          f \in {"none", "auth"} : Login(c, u, pw, f)
    \/ \E d \in 1..MaxReq : Receive(d, "evt_sub", "webhooks", "ok")
    \/ \E d \in 1..MaxReq : Check(d, "none")
    \/ \E d \in 1..MaxReq : Handle(d, "none")
    \/ \E c \in 1..MaxCalls, token \in Tokens, key \in Keys,
          n \in EndpointAmounts : burn_user_coins(c, token, key, n)
    \/ \E c \in 1..MaxCalls, f \in {"none", "update_cre"} : BurnUpdate(c, f)

\* Everything that writes a user's subscription status or profile, with the
\* deliveries taken one at a time.
StatusNext ==
    \/ \E u \in UserIds : CreateUser(u, "none")
    \/ \E u \in UserIds : ConfirmVerification(u)
    \/ \E c \in 1..MaxCalls, u \in UserIds :
          Login(c, u, PasswordOf(u), "none")
    \/ \E c \in 1..MaxCalls, token \in Tokens, body \in ProfileBodies :
          update_users_me(c, token, body, "none")
    \/ \E d \in 1..MaxReq, e \in StatusEvents, r \in Routes :
          /\ \A k \in 1..MaxReq : req[k].pc \in {"idle", "done"}
          /\ Receive(d, e, r, "ok")
    \/ \E d \in 1..MaxReq : Check(d, "none")
    \/ \E d \in 1..MaxReq : Handle(d, "none")
    \/ \E d \in 1..MaxReq : HandleLegacy(d, "none")

Next ==
    \/ LedgerNext
    \/ WebhookNext
    \/ GateNext
    \/ OAuthNext
    \/ ServiceNext
    \/ InvoiceNext
    \/ SubscriptionNext
    \/ ApiNext
    \/ StatusNext
    \/ \E d \in 1..MaxReq, e \in EventIds, v \in Verdicts :
          Receive(d, e, "payments", v)
    \/ \E d \in 1..MaxReq, f \in HandlerFaults : HandleLegacy(d, f)

\* Every writer of the transactions collection: the ledger calls next to
\* deliveries of a one-time purchase to both webhook routes.
LogNext ==
    \/ \E u \in UserIds : CreateUser(u, "none")
    \/ \E c \in 1..MaxCalls, u \in UserIds : AddCoins(c, u, 5, "none")
    \/ \E c \in 1..MaxCalls, u \in UserIds : BurnCheck(c, u, 6)
    \/ \E c \in 1..MaxCalls : BurnUpdate(c, "none")
    \/ \E d \in 1..MaxReq, r \in Routes : Receive(d, "evt_pay", r, "ok")
    \/ \E d \in 1..MaxReq : Check(d, "none")
    \/ \E d \in 1..MaxReq : Handle(d, "none")
    \/ \E d \in 1..MaxReq : HandleLegacy(d, "none")

\* The whole program.
Spec == Init /\ [][Next]_vars
\* The subscription gate of the burn endpoint.
GateSpec == Init /\ [][GateNext]_vars
\* The OAuth login.
OAuthSpec == Init /\ [][OAuthNext]_vars
\* The endpoints behind require_coins.
ServiceSpec == Init /\ [][ServiceNext]_vars
\* The invoices of a subscription.
InvoiceSpec == Init /\ [][InvoiceNext]_vars
\* The subscription mirror.
SubscriptionSpec == Init /\ [][SubscriptionNext]_vars
\* The account endpoints.
ApiSpec == Init /\ [][ApiNext]_vars
\* The writers of the user record.
StatusSpec == Init /\ [][StatusNext]_vars
\* The ledger calls and the purchase deliveries together.
LogSpec == Init /\ [][LogNext]_vars
\* The ledger calls of pocketbase_service on their own.
LedgerSpec == Init /\ [][LedgerNext]_vars
\* Deliveries of every event to the route of webhooks.py.
WebhookSpec == Init /\ [][WebhookNext]_vars
\* Deliveries of one subscription's life cycle to both webhook routes.
RoutesSpec == Init /\ [][RoutesNext]_vars

\* ------------------------------------------------------------- properties
BadVerdicts == {"ValueError", "SignatureVerificationError"}

\* C1: whatever the order and overlap of the deliveries of one event id to
\* stripe_webhook, the balance is credited for that id at most once.
C1_AtMostOnce == \A e \in EventIds : hist[e].credits <= 1

\* C2: every route that hands an event to a handler of EVENT_HANDLERS has
\* looked the event id up in processed_stripe_events first: no request is
\* at its handler without having passed the lookup.
C2_EveryRouteChecksFirst ==
    \A d \in 1..MaxReq : req[d].pc = "handle" => req[d].checked

\* C3 as stated: the lookup step of a request whose event id is recorded
\* answers "duplicate ignored", runs no handler and changes no user, no
\* transaction and no marker.
C3_DuplicateIgnored ==
    [][\A d \in 1..MaxReq :
         (req[d].pc = "check" /\ req[d].ev \in processed /\ req'[d] # req[d])
         => /\ req'[d].pc = "done"
            /\ req'[d].resp = 200
            /\ req'[d].body = "duplicate ignored"
            /\ req'[d].out = NoRef
            /\ UNCHANGED <<users, txns, processed>>]_vars

\* C3 as amended: the lookup step of a request whose event id is recorded
\* runs no handler and changes no user, no transaction and no marker; it
\* answers "duplicate ignored", or 500 when the lookup itself failed.
C3_DuplicateNoEffect ==
    [][\A d \in 1..MaxReq :
         (req[d].pc = "check" /\ req[d].ev \in processed /\ req'[d] # req[d])
         => /\ req'[d].pc = "done"
            /\ \/ req'[d].resp = 200 /\ req'[d].body = "duplicate ignored"
               \/ /\ req'[d].resp = 500
                  /\ req'[d].body = "Could not verify event idempotency."
            /\ req'[d].out = NoRef
            /\ UNCHANGED <<users, txns, processed>>]_vars

C3_Witness ==
    \E d \in 1..MaxReq :
        /\ req[d].pc = "done"
        /\ req[d].body = "duplicate ignored"
        /\ processed # {}

\* C4: a marker exists for an event id only if the handler of some delivery
\* of that id returned, and a request whose handler raised wrote no marker.
C4_MarkerOnlyAfterHandler ==
    /\ \A e \in processed : hist[e].returned
    /\ \A d \in 1..MaxReq : req[d].out = "raised" => ~req[d].wrote

C4_Witness ==
    /\ \E e \in processed : hist[e].returned
    /\ \E d \in 1..MaxReq : req[d].out = "raised" /\ req[d].resp = 500
    /\ \E d \in 1..MaxReq : req[d].wrote

\* C5: a request whose payload or signature construct_event refuses is
\* answered 400 at once: it never reaches a handler or the marker, and its
\* arrival changes no user, no transaction and no marker.
C5_RejectedUnverified ==
    /\ [](\A d \in 1..MaxReq :
            req[d].sig \in BadVerdicts
            => /\ req[d].pc = "done"
               /\ req[d].resp = 400
               /\ req[d].out = NoRef
               /\ ~req[d].wrote)
    /\ [][\A d \in 1..MaxReq :
            (req[d].pc = "idle" /\ req'[d].sig \in BadVerdicts)
            => UNCHANGED <<users, txns, processed>>]_vars

C5_Witness ==
    /\ \E d \in 1..MaxReq :
          req[d].sig = "SignatureVerificationError" /\ req[d].resp = 400
    /\ \E d \in 1..MaxReq : req[d].sig = "ValueError" /\ req[d].resp = 400

\* C6: a request of webhooks.py whose handler failed (an exception inside
\* it, a Stripe call or a coin credit that failed) is answered 500 and has
\* written no marker.
C6_FailurePropagates ==
    \A d \in 1..MaxReq :
        (req[d].pc = "done" /\ req[d].err \in {"stripe", "credit", "missing_fn"})
        => req[d].resp = 500 /\ ~req[d].wrote

\* C7: fulfilment is not lost.  Stripe stops redelivering an event once it
\* is answered 2xx, so a checkout event with coins > 0 that was answered 2xx
\* by a request whose handler found the user has been credited.
C7_AckedMeansCredited ==
    \A e \in EventIds :
        (/\ Event(e).type = "checkout.session.completed"
         /\ Event(e).coins > 0
         /\ hist[e].acked)
        => hist[e].credits >= 1

C9_OneRecordPerMutation ==
    [][\A c \in 1..MaxCalls :
         (/\ call'[c] # call[c]
          /\ call'[c].pc = "done"
          /\ call'[c].ok
          /\ call'[c].amount > 0)
         => txns' = txns (+) SetToBag({
               [user |-> call'[c].user,
                type |-> IF call'[c].op = "add_coins" THEN "purchase"
                         ELSE "spend",
                amount |-> IF call'[c].op = "add_coins" THEN call'[c].amount
                           ELSE 0 - call'[c].amount,
                charge |-> NoRef]})]_vars

\* C10: no user's balance is ever negative.
C10_NonNegative == \A u \in UserIds : users[u].coins >= 0

\* C11: the check and the decrement of burn_coins are two steps.  The
\* decrement of a successful burn_coins takes the amount off the balance as
\* it is by then, having only compared the amount with the balance the call
\* read itself; so two calls that both read a covering balance both
\* decrement (the witness: more was debited than the balance they read).
C11_CheckThenDecrement ==
    [][\A c \in 1..MaxCalls :
         (call[c].pc = "update" /\ call'[c].ok)
         => /\ call[c].seen >= call[c].amount
            /\ users'[call[c].user].coins
                 = users[call[c].user].coins - call[c].amount]_vars

C11_Witness ==
    \E c1, c2 \in 1..MaxCalls :
        /\ c1 # c2
        /\ call[c1].op = "burn_coins" /\ call[c1].ok
        /\ call[c2].op = "burn_coins" /\ call[c2].ok
        /\ call[c1].user = call[c2].user
        /\ call[c1].seen = call[c2].seen
        /\ call[c1].amount + call[c2].amount > call[c1].seen
        /\ users[call[c1].user].coins < 0

AuditFaults == {"tx_cre", "tx_exc"}

\* C12: in add_coins and burn_coins the balance is updated before the
\* transaction row is written and is not put back: a call whose audit write
\* fails leaves the balance changed by the amount and the transactions as
\* they were.
C12_BalanceKeptWithoutAudit ==
    [][/\ \A c \in 1..MaxCalls, u \in UserIds, n \in AddAmounts,
             f \in AuditFaults :
             (n > 0 /\ users[u].exists /\ AddCoins(c, u, n, f))
             => /\ users'[u].coins = users[u].coins + n
                /\ txns' = txns
       /\ \A c \in 1..MaxCalls, f \in AuditFaults :
             BurnUpdate(c, f)
             => /\ users'[call[c].user].coins
                     = users[call[c].user].coins - call[c].amount
                /\ txns' = txns]_vars

C12_Witness ==
    /\ \E c \in 1..MaxCalls :
          /\ call[c].pc = "done"
          /\ call[c].amount > 0
          /\ call[c].ok
          /\ users[call[c].user].coins # FREE_SIGNUP_COINS
    /\ \A row \in BagToSet(txns) : row.type = "bonus"
    /\ \A c \in 1..MaxCalls : call[c].pc # "done" \/ call[c].ok

\* C13: the transaction log only grows: every step keeps every row, with its
\* values and its number of copies.
C13_AppendOnly ==
    [][\A row \in BagToSet(txns) :
         CopiesIn(row, txns') >= CopiesIn(row, txns)]_vars

C13_Witness ==
    /\ BagCardinality(txns) >= 3
    /\ \E row \in BagToSet(txns) : row.type = "bonus"
    /\ \E row \in BagToSet(txns) : row.type = "spend"
    /\ \E row \in BagToSet(txns) : row.charge = "pi_pay"

C17_InsufficientIs402 ==
    [][\A c \in 1..MaxCalls, token \in Tokens, n \in EndpointAmounts :
         (/\ burn_user_coins(c, token, INTERNAL_API_SECRET_TOKEN, n)
          /\ get_user_from_token(token) # NoRef
          /\ n > 0
          /\ users[get_user_from_token(token)].status = "active"
          /\ users[get_user_from_token(token)].coins < n)
         => /\ BurnAnswer(c)'.http = 402
            /\ BurnAnswer(c)'.detail = "Insufficient coins."
            /\ call'[c].pc = "done"
            /\ users' = users
            /\ txns' = txns]_vars

C17_Witness ==
    \E c \in 1..MaxCalls :
       /\ api[c].op = "burn"
       /\ call[c].op = "burn_coins"
       /\ call[c].amount > users[call[c].user].coins
       /\ users[call[c].user].coins > 0
       /\ BurnAnswer(c).http = 402

\* C18: a burn request with an issued token whose X-Internal-API-Key header
\* is missing or wrong is answered 401, and burn_coins is not called for it.
C18_KeyGuardsBurn ==
    [][\A c \in 1..MaxCalls, token \in Tokens, key \in Keys,
          n \in EndpointAmounts :
         (/\ burn_user_coins(c, token, key, n)
          /\ get_user_from_token(token) # NoRef
          /\ key # INTERNAL_API_SECRET_TOKEN)
         => /\ api'[c].http = 401
            /\ call'[c].op # "burn_coins"]_vars

\* C19: a login returns an access token exactly when the backend accepted
\* the credentials and the account is verified; refused credentials are
\* answered 401 and an unverified account 403, both without a token.
C19_TokenOnlyWhenVerified ==
    [][\A c \in 1..MaxCalls, u \in UserIds, pw \in Passwords,
          f \in {"none", "auth"} :
         Login(c, u, pw, f)
         => LET accepted == f = "none" /\ users[u].exists
                            /\ pw = PasswordOf(u)
            IN /\ (api'[c].token # NoRef)
                    <=> (accepted /\ users[u].verified)
               /\ api'[c].token # NoRef
                    => api'[c].token = TokenOf(u) /\ api'[c].http = 200
               /\ ~accepted
                    => api'[c].http = 401 /\ api'[c].token = NoRef
               /\ (accepted /\ ~users[u].verified)
                    => api'[c].http = 403 /\ api'[c].token = NoRef]_vars

C19_Witness ==
    \E c1, c2 \in 1..MaxCalls :
       /\ api[c1].op = "login"
       /\ api[c1].http = 403
       /\ api[c2].op = "login"
       /\ api[c2].http = 200
       /\ api[c2].token = "tok_u1"

\* C20: handle_checkout_completed credits before it touches the rest of the
\* user record: a checkout delivery whose coin credit failed leaves the
\* user's subscription status and Stripe customer and subscription ids as
\* they were.
C20_NoActivationWithoutCoins ==
    [][\A d \in 1..MaxReq :
         (/\ req[d].pc = "handle"
          /\ req[d].route = "webhooks"
          /\ Event(req[d].ev).type = "checkout.session.completed"
          /\ req'[d].pc = "done"
          /\ req'[d].err = "credit")
         => \A u \in UserIds :
              /\ users'[u].status = users[u].status
              /\ users'[u].customer = users[u].customer
              /\ users'[u].subscription = users[u].subscription]_vars

\* C21: the handling of an invoice.payment_succeeded event whose billing
\* reason is not 'subscription_cycle' changes no user and writes no
\* transaction, on either route; the first invoice of a subscription never
\* counts as a credit.
C21_OnlyRenewalsCredit ==
    [][\A d \in 1..MaxReq :
         (/\ req[d].pc = "handle"
          /\ Event(req[d].ev).type = "invoice.payment_succeeded"
          /\ Event(req[d].ev).reason # "subscription_cycle"
          /\ req'[d].pc = "done")
         => /\ users' = users
            /\ txns' = txns
            /\ \A e \in FirstInvoices : hist'[e].credits = 0]_vars

C21_Witness ==
    /\ "evt_sub" \in processed
    /\ "evt_first" \in processed
    /\ users["u1"].coins = FREE_SIGNUP_COINS + 5
    /\ BagCardinality(txns) = 2

\* C22: when the call an endpoint behind require_coins wraps raises, the
\* request is answered 503, burn_coins is not called for it, and users and
\* transactions are as they were before that step.
C22_FailedServiceIsFree ==
    [][\A c \in 1..MaxCalls :
         ServiceCall(c, "raise")
         => /\ ServiceAnswer(c)'.http = 503
            /\ call'[c].pc = "done"
            /\ call'[c].op # "burn_coins"
            /\ users' = users
            /\ txns' = txns]_vars

C22_Witness ==
    \E c \in 1..MaxCalls :
       /\ api[c].op = "service"
       /\ api[c].http = 503
       /\ call[c].amount = IMAGE_GENERATION_COST
       /\ users[call[c].user].coins = call[c].seen
       /\ BagCardinality(txns) = 1

\* C23: a stored OAuth state lets one callback through: of the callback
\* requests that carry the same state value, at most one gets past the state
\* lookup.
C23_StateSingleUse ==
    \A s \in OAuthStates :
       Cardinality({k \in 1..MaxCalls : cb[k].state = s /\ cb[k].passed}) <= 1

\* C24: a burn request with an issued token, the right internal key and a
\* valid amount for a user whose subscription status is not 'active'
\* (inactive, canceling, cancelled or never set) is answered 403; burn_coins
\* is not called for it and users and transactions stay as they were.
C24_OnlyActiveMayBurn ==
    [][\A c \in 1..MaxCalls, u \in UserIds :
         (/\ burn_user_coins(c, TokenOf(u), INTERNAL_API_SECRET_TOKEN, 6)
          /\ get_user_from_token(TokenOf(u)) = u
          /\ users[u].status # "active")
         => /\ api'[c].http = 403
            /\ call'[c].pc = "done"
            /\ call'[c].op # "burn_coins"
            /\ users' = users
            /\ txns' = txns]_vars

C24_Witness ==
    /\ users["u1"].status = "canceling"
    /\ users["u1"].coins = FREE_SIGNUP_COINS + 5
    /\ \E c \in 1..MaxCalls :
          /\ api[c].op = "burn"
          /\ api[c].http = 403
          /\ call[c].op = NoRef

\* C25: a verified customer.subscription.deleted delivery to the webhooks
\* route for a subscription id some user is linked to leaves that user with
\* status 'cancelled', no plan name, no subscription id and the balance it
\* had, and the event recorded as processed.
C25_DeletedEndsSubscription ==
    [][\A d \in 1..MaxReq, u \in UserIds :
         (/\ req[d].pc = "handle"
          /\ req[d].route = "webhooks"
          /\ Event(req[d].ev).type = "customer.subscription.deleted"
          /\ req'[d].pc = "done"
          /\ users[u].exists
          /\ users[u].subscription = Event(req[d].ev).subscription)
         => /\ users'[u].status = "cancelled"
            /\ users'[u].plan = NoRef
            /\ users'[u].subscription = NoRef
            /\ users'[u].coins = users[u].coins
            /\ req[d].ev \in processed']_vars

\* C26: a create_user call that reports an error has created no user
\* record, and a record it creates has balance FREE_SIGNUP_COINS, status
\* 'inactive' and exactly one 'bonus' row of +FREE_SIGNUP_COINS.
C26_SignupRecord ==
    [][\A u \in UserIds, f \in {"none", "update_cre", "verify_cre", "tx_cre"} :
         CreateUser(u, f)
         => /\ reg' = "error" => users' = users
            /\ (users'[u].exists /\ ~users[u].exists)
                 => /\ users'[u].coins = FREE_SIGNUP_COINS
                    /\ users'[u].status = "inactive"
                    /\ CopiesIn([user |-> u, type |-> "bonus",
                                 amount |-> FREE_SIGNUP_COINS,
                                 charge |-> NoRef], txns') = 1]_vars

\* C27: the signup bonus is credited to a user at most once over all OAuth
\* logins: at most one callback of a user has credited it.
C27_BonusOnce ==
    \A u \in UserIds :
       Cardinality({k \in 1..MaxCalls : cb[k].user = u /\ cb[k].bonus}) <= 1

\* C28: a request behind require_coins that is answered with a result has
\* had its cost deducted: the coins_burned of the answer is what its
\* burn_coins call took from the balance.
C28_ChargedWhenServed ==
    \A c \in 1..MaxCalls :
       (api[c].op = "service" /\ ServiceAnswer(c).http = 200)
       => ServiceAnswer(c).coins_burned
            = (IF call[c].ok THEN call[c].amount ELSE 0)

====
